---- MODULE Spec2Model ----
(***************************************************************************)
(* Model of the expense-ledger bot: stats.py (compute_recipients, Notes,   *)
(* summary), the /new command of telegram.py, Sheets.append and           *)
(* Sheets.undo with the Timer threads.                                     *)
(*                                                                         *)
(* Text.  A Python str is modelled as a sequence of lexemes.  A lexeme is  *)
(* either one character that the code's regular expressions look at (a     *)
(* blank, a separator, a digit, a sign, a decimal mark) or a whole word    *)
(* (a run of letters, with inner blanks for the group names of the         *)
(* doctest) that no regular expression of the code ever cuts.              *)
(*                                                                         *)
(* Numbers.  A Python float is modelled by the integer number of           *)
(* thousandths it denotes.  The amounts the model enumerates are dyadic    *)
(* multiples of 0.75, so every quotient, sum and difference that summary   *)
(* computes on them is exactly representable in binary64 and the integer   *)
(* arithmetic below is what the code computes on these inputs.             *)
(***************************************************************************)
EXTENDS Integers, Sequences, FiniteSets, TLC

VARIABLES
    address,        \* compute_recipients: the argument `address`
    groups,         \* compute_recipients: the argument `groups`
    recipients,     \* compute_recipients: the outcome of the call
    df_in,          \* summary: the argument df, rows of five texts
    pc,             \* summary: the stage the call has completed
    raised,         \* summary: the exception that ended the call, or "none"
    df,             \* summary: the stripped table with float amounts
    df_expanded,    \* summary: df with the debtor lists
    df_stacked,     \* summary: one row per record and debtor
    df_summed,      \* summary: the total per (creditor, debtor)
    total_received, \* summary: the column sums of df_expenses
    total_paid,     \* summary: the row sums of df_expenses
    balances,       \* summary: the Series the settlement loop works on
    transfers,      \* summary: the list the settlement loop appends to
    steps,          \* summary: notes.steps
    sheet,          \* the spreadsheet: per table, the rows under the header
    reply,          \* Handler: the last reply sent
    history,        \* Sheets.history, a deque of at most one item
    undo_timer,     \* Sheets.undo_timer: initial, started or cancelled
    calls,          \* per thread, the locals of its invocation of summary
    notes_steps,    \* per Notes instance, its list self.steps
    timers,         \* the Timer threads that Sheets.append has started
    now,            \* the clock, in units of config['undo_timer'] seconds
    handling,       \* the message loop inside Sheets.append or Sheets.undo
    log             \* the calls of append and undo so far, with their outcomes

rvars == <<address, groups, recipients>>
svars == <<df_in, pc, raised, df, df_expanded, df_stacked, df_summed,
           total_received, total_paid, balances, transfers, steps>>
evars == <<sheet, reply, history, undo_timer>>
cvars == <<calls, notes_steps>>
uvars == <<timers, now, handling, log>>
vars == <<rvars, svars, evars, cvars, uvars>>

(***************************************************************************)
(* Bounds of the model.                                                    *)
(***************************************************************************)
MaxExprLen == 3
MaxRecords == 2
MaxRows == 2

(***************************************************************************)
(* Lexemes and their order (the order of their first character's code      *)
(* point: ' ' < '&' < '+' < ',' < '-' < '.' < digits < ';' < 'A'.. < '\').  *)
(***************************************************************************)
Blank == " "
AndSeps == {"+", "&", ";"}
MinusSeps == {"-", "\\"}
Words == <<"Alice", "Bob", "Charlie", "Doris", "Ice Cream", "Pizza">>
Digits == <<"0", "1", "2", "3", "4", "5", "6", "7", "8", "9">>

LexOrder ==
    <<" ", "&", "+", ",", "-", ".">> \o Digits \o <<";">>
    \o <<"Alice", "Bob", "Bobby", "Charlie", "Doris", "Ice Cream", "Pizza">>
    \o <<"\\">>

LexRank(l) == CHOOSE i \in 1..Len(LexOrder) : LexOrder[i] = l

Range(s) == {s[i] : i \in 1..Len(s)}

\* Python's str comparison a < b, on lexeme sequences.
RECURSIVE StrLess(_, _)
StrLess(a, b) ==
    IF b = <<>> THEN FALSE
    ELSE IF a = <<>> THEN TRUE
    ELSE IF Head(a) = Head(b) THEN StrLess(Tail(a), Tail(b))
    ELSE LexRank(Head(a)) < LexRank(Head(b))

\* Python's sorted(S) for a set of str.
RECURSIVE sorted(_)
sorted(S) ==
    IF S = {} THEN <<>>
    ELSE LET m == CHOOSE x \in S : \A y \in S : x = y \/ StrLess(x, y)
         IN  <<m>> \o sorted(S \ {m})

(***************************************************************************)
(* str.strip and re.split(r'\s*[seps]\s*', s).                             *)
(***************************************************************************)
RECURSIVE lstrip(_)
lstrip(s) == IF s # <<>> /\ Head(s) = Blank THEN lstrip(Tail(s)) ELSE s

RECURSIVE rstrip(_)
rstrip(s) ==
    IF s # <<>> /\ s[Len(s)] = Blank THEN rstrip(SubSeq(s, 1, Len(s) - 1)) ELSE s

strip(s) == lstrip(rstrip(s))

\* The pieces of s between the matches of \s*[seps]\s*: a match starts at the
\* blanks in front of a separator and takes the blanks behind it.
RECURSIVE SplitFrom(_, _, _, _)
SplitFrom(s, seps, cur, out) ==
    IF s = <<>> THEN Append(out, cur)
    ELSE IF Head(s) \in seps
         THEN SplitFrom(lstrip(Tail(s)), seps, <<>>, Append(out, rstrip(cur)))
         ELSE SplitFrom(Tail(s), seps, Append(cur, Head(s)), out)

re_split(seps, s) == SplitFrom(s, seps, <<>>, <<>>)

(***************************************************************************)
(* compute_recipients.  The argument groups is a record [none, columns,    *)
(* index, notnull]: whether it is None and, when it is a table, its column *)
(* labels, its index labels and the <<person, column>> cells that are not  *)
(* null.                                                                   *)
(***************************************************************************)
NoGroups == [none |-> TRUE, columns |-> {}, index |-> {}, notnull |-> {}]

\* pd.DataFrame(): no columns, no index.
EmptyFrame == [none |-> FALSE, columns |-> {}, index |-> {}, notnull |-> {}]

\* The value of an expression that is a Python set or a Python tuple.
PySet(S) == [type |-> "set", elems |-> S]
PyTuple(t) == [type |-> "tuple", elems |-> Range(t)]

\* (a slip that leaves the group names among the persons)
expand_groups_keep(parts, g) ==
    IF parts = <<>> THEN PySet({})
    ELSE IF g.none THEN PyTuple(parts)
    ELSE LET relevant_groups == {x \in Range(parts) : x \in g.columns}
             relevant_group_members ==
                 {p \in g.index : \E x \in relevant_groups : <<p, x>> \in g.notnull}
         IN  PySet(Range(parts) \cup relevant_group_members)

expand_groups(parts, g) ==
    IF parts = <<>> THEN PySet({})
    ELSE IF g.none THEN PyTuple(parts)
    ELSE LET relevant_groups == {x \in Range(parts) : x \in g.columns}
             relevant_group_members ==
                 {p \in g.index : \E x \in relevant_groups : <<p, x>> \in g.notnull}
         IN  PySet((Range(parts) \ relevant_groups) \cup relevant_group_members)

RECURSIVE Chain(_)
Chain(ss) == IF ss = <<>> THEN <<>> ELSE Head(ss) \o Chain(Tail(ss))

AddTokens(a) ==
    LET parts == re_split(AndSeps, a)
    IN  [i \in 1..Len(parts) |-> Head(re_split(MinusSeps, parts[i]))]

SubtractTokens(a) ==
    LET parts == re_split(AndSeps, a)
    IN  Chain([i \in 1..Len(parts) |-> Tail(re_split(MinusSeps, parts[i]))])

\* (a slip that applies each term's minus clause to that term alone)
compute_recipients_per_term(a, g) ==
    LET parts == re_split(AndSeps, a)
        term(i) ==
            LET pieces == re_split(MinusSeps, parts[i])
                add == expand_groups(<<Head(pieces)>>, g)
                subtract == expand_groups(Tail(pieces), g)
            IN  IF add.type = "set" /\ subtract.type = "set"
                THEN add.elems \ subtract.elems
                ELSE {<<"TypeError">>}
        all == UNION {term(i) : i \in 1..Len(parts)}
    IN  IF <<"TypeError">> \in all
        THEN [raised |-> "TypeError", value |-> <<>>]
        ELSE [raised |-> "none", value |-> sorted(all)]

\* set - set is a set; tuple - set and tuple - tuple raise TypeError.
compute_recipients(a, g) ==
    LET add == expand_groups(AddTokens(a), g)
        subtract == expand_groups(SubtractTokens(a), g)
    IN  IF add.type = "set" /\ subtract.type = "set"
        THEN [raised |-> "none", value |-> sorted(add.elems \ subtract.elems)]
        ELSE [raised |-> "TypeError", value |-> <<>>]

(***************************************************************************)
(* Numbers: float(text), the quotient of two floats, round(x, 2).          *)
(***************************************************************************)
DigitValue(d) == (CHOOSE i \in 1..Len(Digits) : Digits[i] = d) - 1

RECURSIVE DigitsValue(_)
DigitsValue(ds) ==
    IF ds = <<>> THEN 0
    ELSE 10 * DigitsValue(SubSeq(ds, 1, Len(ds) - 1)) + DigitValue(ds[Len(ds)])

RECURSIVE Pow10(_)
Pow10(n) == IF n = 0 THEN 1 ELSE 10 * Pow10(n - 1)

\* The thousandths a run of at most three decimals denotes.
Thousandths(ds) == DigitsValue(ds) * Pow10(3 - Len(ds))

\* float(text) over the lexemes of the model: blanks around, an optional
\* sign, digits with at most one '.', at least one digit.  Anything else (a
\* ',' for one) raises ValueError.  The value is in thousandths; the texts
\* of the model have at most three decimals.
float(text) ==
    LET t == strip(text)
        signed == t # <<>> /\ Head(t) \in {"-", "+"}
        body == IF signed THEN Tail(t) ELSE t
        points == {i \in 1..Len(body) : body[i] = "."}
        point == IF points = {} THEN Len(body) + 1 ELSE CHOOSE i \in points : TRUE
        whole == SubSeq(body, 1, point - 1)
        decimals == SubSeq(body, point + 1, Len(body))
        wellformed ==
            /\ Cardinality(points) <= 1
            /\ \A i \in (1..Len(body)) \ points : body[i] \in Range(Digits)
            /\ Len(whole) + Len(decimals) > 0
        magnitude == 1000 * DigitsValue(whole) + Thousandths(decimals)
    IN  IF wellformed
        THEN [raised |-> "none",
              value |-> IF signed /\ Head(t) = "-" THEN -magnitude ELSE magnitude]
        ELSE [raised |-> "ValueError", value |-> 0]

\* A float of the stacked table: finite (in thousandths), or what a division
\* by zero gives.
Finite(v) == [kind |-> "finite", v |-> v]
NonFinite(kind) == [kind |-> kind, v |-> 0]

\* amount / count, for a float amount and an integer count (no exception:
\* x / 0 is inf, -inf or nan in a Series).
Quotient(amount, count) ==
    IF count # 0 THEN Finite(amount \div count)
    ELSE IF amount > 0 THEN NonFinite("inf")
    ELSE IF amount < 0 THEN NonFinite("-inf")
    ELSE NonFinite("nan")

\* round(x, ndigits=2): to the nearest hundredth, a tie to the even one.
round2(v) ==
    LET q == v \div 10
        r == v % 10
    IN  IF r < 5 THEN 10 * q
        ELSE IF r > 5 THEN 10 * (q + 1)
        ELSE IF q % 2 = 0 THEN 10 * q ELSE 10 * (q + 1)

round2_float(x) == IF x.kind = "finite" THEN Finite(round2(x.v)) ELSE x

(***************************************************************************)
(* Tables.  A frame is the sequence of its rows in index order; a row      *)
(* carries its index label (the number of the record it comes from).  A    *)
(* Series or a grouped frame is a function from its index labels.          *)
(***************************************************************************)
NaN == <<"NaN">>            \* the null of an object column

RECURSIVE SumOver(_, _)
SumOver(f, S) ==
    IF S = {} THEN 0
    ELSE LET x == CHOOSE y \in S : TRUE
         IN  f[x] + SumOver(f, S \ {x})

\* ' + '.join(names)
RECURSIVE join_plus(_)
join_plus(names) ==
    IF names = <<>> THEN <<>>
    ELSE IF Len(names) = 1 THEN Head(names)
    ELSE Head(names) \o <<" ", "+", " ">> \o join_plus(Tail(names))

\* The order of sort_index on the index [creditor, debtor, item]; a null
\* label comes after every other label.
LabelLess(a, b) == a # NaN /\ (b = NaN \/ StrLess(a, b))

KeyLess(a, b) ==
    \/ LabelLess(a.creditor, b.creditor)
    \/ /\ a.creditor = b.creditor
       /\ \/ LabelLess(a.debtor, b.debtor)
          \/ a.debtor = b.debtor /\ LabelLess(a.item, b.item)

\* rows sorted by key, rows of equal key in their given order.
RECURSIVE InsertRow(_, _)
InsertRow(sortedRows, r) ==
    IF sortedRows = <<>> THEN <<r>>
    ELSE IF KeyLess(r, Head(sortedRows)) THEN <<r>> \o sortedRows
    ELSE <<Head(sortedRows)>> \o InsertRow(Tail(sortedRows), r)

RECURSIVE sort_index(_)
sort_index(rows) ==
    IF rows = <<>> THEN <<>>
    ELSE InsertRow(sort_index(SubSeq(rows, 1, Len(rows) - 1)), rows[Len(rows)])

(***************************************************************************)
(* Notes.add: the step is a copy; a debtor column of lists is joined, the  *)
(* amount column is rounded, the rows are put in index order.              *)
(***************************************************************************)
Step(caption, table) == [caption |-> caption, table |-> table]

\* Notes.add(frame, caption, index=[creditor, debtor, item]) for the frames
\* df (amount a float, debtor a text) and df_expanded (debtor a list).
add_frame(notes, frame, caption, debtorIsList) ==
    LET shown(r) ==
            [r EXCEPT !.debtor = IF debtorIsList THEN join_plus(@) ELSE @,
                      !.amount = round2(@)]
    IN  Append(notes, Step(caption, sort_index([i \in 1..Len(frame) |-> shown(frame[i])])))

\* Notes.add(df_stacked, caption, index=[creditor, debtor, item]): the
\* amount is a quotient, the debtor a name or null.
add_stacked(notes, frame, caption) ==
    LET shown(r) == [r EXCEPT !.amount = round2_float(@)]
    IN  Append(notes, Step(caption, sort_index([i \in 1..Len(frame) |-> shown(frame[i])])))

\* (a slip that puts the new step before the others)
add_rounded_first(notes, series, caption) ==
    <<Step(caption, [k \in DOMAIN series |-> round2(series[k])])>> \o notes

\* Notes.add of a Series or grouped frame of amounts that add rounds
\* (df_summed) or that summary rounded before the call (balances).
add_rounded(notes, series, caption) ==
    Append(notes, Step(caption, [k \in DOMAIN series |-> round2(series[k])]))

\* (a slip that works on the caller's table itself)
kept_shown(frame, notes) == notes[Len(notes)].table

\* Notes.add works on step.copy(): the table the caller passed is, after
\* the call, what it was before (notes: the steps after the call).
kept(frame, notes) == frame

\* (a slip that stores the Series of the balances itself)
steps_alias(notes, b) ==
    [i \in 1..Len(notes) |->
        IF notes[i].caption = "Balances"
        THEN Step("Balances", [p \in DOMAIN b |-> round2(b[p])])
        ELSE notes[i]]

\* The step 'Balances' is a copy of the Series round_2 made; the in-place
\* changes the loop makes to balances (b: balances after an iteration) do
\* not reach the steps.
steps_kept(notes, b) == notes

(***************************************************************************)
(* summary, stage by stage.                                                *)
(***************************************************************************)
\* df[[creditor, debtor, item, amount]].applymap(str.strip): the texts of a
\* record, stripped.
stripped(row) ==
    [creditor |-> strip(row.creditor), debtor |-> strip(row.debtor),
     item |-> strip(row.item), amount |-> strip(row.amount)]

\* df[[amount]].applymap(float) raises when some amount is no float.
amounts_parse(table) ==
    \A i \in 1..Len(table) : float(stripped(table[i]).amount).raised = "none"

\* The table after the amounts have become floats.
outlay(table) ==
    [i \in 1..Len(table) |->
        [record |-> i,
         creditor |-> stripped(table[i]).creditor,
         debtor |-> stripped(table[i]).debtor,
         item |-> stripped(table[i]).item,
         amount |-> float(stripped(table[i]).amount).value]]

\* df_expanded[debtor].map(partial(compute_recipients, groups=df_groups)),
\* df_groups being pd.DataFrame().
expanded(frame) ==
    [i \in 1..Len(frame) |->
        [frame[i] EXCEPT !.debtor = compute_recipients(@, EmptyFrame).value]]

\* The rows df_stacked holds for one record: one per debtor of its list, in
\* the order of the list, each with amount / len(list); a record whose list
\* is empty keeps one row, with a null debtor (the left join finds no
\* receiving person) and the quotient by zero.
stacked_rows(r) ==
    IF r.debtor = <<>>
    THEN << [r EXCEPT !.debtor = NaN, !.amount = Quotient(r.amount, 0)] >>
    ELSE [k \in 1..Len(r.debtor) |->
            [r EXCEPT !.debtor = r.debtor[k],
                      !.amount = Quotient(r.amount, Len(r.debtor))]]

stacked(frame) == Chain([i \in 1..Len(frame) |-> stacked_rows(frame[i])])

\* groupby([creditor, debtor]).sum(): the rows are added up in their order,
\* group by group; a row whose key holds a null is in no group.
RECURSIVE groupby_sum(_)
groupby_sum(rows) ==
    IF rows = <<>> THEN <<>>
    ELSE LET r == rows[Len(rows)]
             before == groupby_sum(SubSeq(rows, 1, Len(rows) - 1))
             key == <<r.creditor, r.debtor>>
         IN  IF r.debtor = NaN THEN before
             ELSE [k \in DOMAIN before \cup {key} |->
                     IF k = key
                     THEN (IF key \in DOMAIN before THEN before[key] ELSE 0) + r.amount.v
                     ELSE before[k]]

\* df_summed.unstack(fill_value=0.): rows are the creditors, columns the
\* debtors.
creditors_of(summed) == {k[1] : k \in DOMAIN summed}
debtors_of(summed) == {k[2] : k \in DOMAIN summed}

\* (a slip that reads the cell of the pair the other way round)
expenses_transposed(summed) ==
    [c \in creditors_of(summed) |->
        [d \in debtors_of(summed) |->
            IF <<d, c>> \in DOMAIN summed THEN summed[<<d, c>>] ELSE 0]]

expenses(summed) ==
    [c \in creditors_of(summed) |->
        [d \in debtors_of(summed) |->
            IF <<c, d>> \in DOMAIN summed THEN summed[<<c, d>>] ELSE 0]]

\* df_expenses.sum(axis=0): per debtor, what was paid for them.
received_of(summed) ==
    [d \in debtors_of(summed) |->
        SumOver([c \in creditors_of(summed) |-> expenses(summed)[c][d]],
                creditors_of(summed))]

\* df_expenses.sum(axis=1) without the row 'Total (received)': per creditor,
\* what they paid.
paid_of(summed) ==
    [c \in creditors_of(summed) |->
        SumOver(expenses(summed)[c], debtors_of(summed))]

\* round_2(df_expenses) as it is shown: the cells, the appended row and the
\* added column, whose last cell is the sum of the appended row.
expenses_shown(summed) ==
    [cells |-> [c \in creditors_of(summed) |->
                   [d \in debtors_of(summed) |-> round2(expenses(summed)[c][d])]],
     received |-> [d \in debtors_of(summed) |-> round2(received_of(summed)[d])],
     paid |-> [c \in creditors_of(summed) |-> round2(paid_of(summed)[c])],
     total |-> round2(SumOver(received_of(summed), debtors_of(summed)))]

\* (a slip that leaves out fill_value: a person missing on one side is lost)
subtract_no_fill(paid, received) ==
    [p \in DOMAIN paid \cap DOMAIN received |-> paid[p] - received[p]]

\* total_paid.subtract(total_received, fill_value=0.)
subtract_fill(paid, received) ==
    [p \in DOMAIN paid \cup DOMAIN received |->
        (IF p \in DOMAIN paid THEN paid[p] ELSE 0)
        - (IF p \in DOMAIN received THEN received[p] ELSE 0)]

\* Series.idxmax / idxmin: the first label, in index order, of the largest /
\* smallest value.  The index of balances is the sorted union of the two
\* indexes, and drop keeps the order.
\* (a slip that takes the last label of the largest value)
idxmax_last(b) ==
    CHOOSE p \in DOMAIN b :
        /\ \A q \in DOMAIN b : b[q] <= b[p]
        /\ \A q \in DOMAIN b : b[q] = b[p] => (q = p \/ StrLess(q, p))

idxmax(b) ==
    CHOOSE p \in DOMAIN b :
        /\ \A q \in DOMAIN b : b[q] <= b[p]
        /\ \A q \in DOMAIN b : b[q] = b[p] => (q = p \/ StrLess(p, q))

idxmin(b) ==
    CHOOSE p \in DOMAIN b :
        /\ \A q \in DOMAIN b : b[q] >= b[p]
        /\ \A q \in DOMAIN b : b[q] = b[p] => (q = p \/ StrLess(p, q))

abs(x) == IF x < 0 THEN -x ELSE x

\* (a slip that always transfers what the creditor is owed)
min_paid(x, y) == x

min(x, y) == IF x <= y THEN x ELSE y
max(x, y) == IF x >= y THEN x ELSE y

drop(b, p) == [q \in DOMAIN b \ {p} |-> b[q]]

\* (a slip that transfers the larger of the two amounts)
settle_step_max(b, t) ==
    LET creditor == idxmax(b)
        debtor == idxmin(b)
        paid == b[creditor]
        received == abs(b[debtor])
        appended == Append(t, <<debtor, creditor, max(paid, received)>>)
    IN  IF paid >= received
        THEN [balances |-> drop([b EXCEPT ![creditor] = @ - received], debtor),
              transfers |-> appended]
        ELSE [balances |-> drop([b EXCEPT ![debtor] = @ + paid], creditor),
              transfers |-> appended]

\* (a slip that drops both persons when their amounts are equal)
settle_step_both(b, t) ==
    LET creditor == idxmax(b)
        debtor == idxmin(b)
        paid == b[creditor]
        received == abs(b[debtor])
        appended == Append(t, <<debtor, creditor, min(paid, received)>>)
    IN  IF paid = received
        THEN [balances |-> drop(drop(b, creditor), debtor), transfers |-> appended]
        ELSE IF paid > received
        THEN [balances |-> drop([b EXCEPT ![creditor] = @ - received], debtor),
              transfers |-> appended]
        ELSE [balances |-> drop([b EXCEPT ![debtor] = @ + paid], creditor),
              transfers |-> appended]

\* One iteration of the settlement loop.
settle_step(b, t) ==
    LET creditor == idxmax(b)
        debtor == idxmin(b)
        paid == b[creditor]
        received == abs(b[debtor])
        appended == Append(t, <<debtor, creditor, min(paid, received)>>)
    IN  IF paid >= received
        THEN [balances |-> drop([b EXCEPT ![creditor] = @ - received], debtor),
              transfers |-> appended]
        ELSE [balances |-> drop([b EXCEPT ![debtor] = @ + paid], creditor),
              transfers |-> appended]

\* DataFrame(transfers, columns=['Writer', 'Recipient', 'Amount'])
\* .set_index(['Writer', 'Recipient']).sort_index(), rounded.
TransferLess(a, b) ==
    StrLess(a[1], b[1]) \/ (a[1] = b[1] /\ StrLess(a[2], b[2]))

RECURSIVE InsertTransfer(_, _)
InsertTransfer(sortedRows, r) ==
    IF sortedRows = <<>> THEN <<r>>
    ELSE IF TransferLess(r, Head(sortedRows)) THEN <<r>> \o sortedRows
    ELSE <<Head(sortedRows)>> \o InsertTransfer(Tail(sortedRows), r)

RECURSIVE sort_transfers(_)
sort_transfers(t) ==
    IF t = <<>> THEN <<>>
    ELSE InsertTransfer(sort_transfers(SubSeq(t, 1, Len(t) - 1)), t[Len(t)])

clearing(t) ==
    LET df_transfers == sort_transfers(t)
    IN  [i \in 1..Len(df_transfers) |->
            [Writer |-> df_transfers[i][1], Recipient |-> df_transfers[i][2],
             Amount |-> round2(df_transfers[i][3])]]

(***************************************************************************)
(* telegram.py, Handler._handle_new.  The pattern of /new is, after any    *)
(* blanks: an optional list of names (words of letters, between two words  *)
(* blanks and at most one of , + &), blanks, the amount (an optional -,    *)
(* digits, optionally one of . , and digits), blanks, and the rest as the  *)
(* description.  It is matched on a text whose words are lexemes of their  *)
(* own.                                                                    *)
(***************************************************************************)
\* The words of the messages, each with its lower-case and its capitalized
\* spelling.
Spellings ==
    { <<"alice", "alice", "Alice">>, <<"Alice", "alice", "Alice">>,
      <<"bob", "bob", "Bob">>, <<"Bob", "bob", "Bob">>,
      <<"bobby", "bobby", "Bobby">>, <<"Bobby", "bobby", "Bobby">>,
      <<"charlie", "charlie", "Charlie">>, <<"Charlie", "charlie", "Charlie">>,
      <<"Pizza", "pizza", "Pizza">> }

IsWord(l) == \E s \in Spellings : s[1] = l
lower(w) == (CHOOSE s \in Spellings : s[1] = w)[2]
capitalize(w) == (CHOOSE s \in Spellings : s[1] = w)[3]

NameSeps == {",", "+", "&"}
DateLexemes == {"24.12.2019"}

\* The number of leading lexemes of t that are in S.
RECURSIVE RunLength(_, _)
RunLength(t, S) ==
    IF t # <<>> /\ Head(t) \in S THEN 1 + RunLength(Tail(t), S) ELSE 0

Drop(t, n) == SubSeq(t, n + 1, Len(t))

\* t[k] is a word that ends a list of names; the end of the longest list of
\* names that starts there: a gap (blanks, at most one of , + &, blanks)
\* and a word extend it.
RECURSIVE NamesEndFrom(_, _)
NamesEndFrom(t, k) ==
    LET afterBlanks == k + RunLength(Drop(t, k), {Blank})
        afterSep ==
            IF afterBlanks < Len(t) /\ t[afterBlanks + 1] \in NameSeps
            THEN afterBlanks + 1 + RunLength(Drop(t, afterBlanks + 1), {Blank})
            ELSE afterBlanks
    IN  IF afterSep < Len(t) /\ IsWord(t[afterSep + 1])
        THEN NamesEndFrom(t, afterSep + 1)
        ELSE k

NamesEnd(t) == IF t # <<>> /\ IsWord(Head(t)) THEN NamesEndFrom(t, 1) ELSE 0

\* The length of the match of the amount at the start of t, or 0 when it
\* does not match there.
AmountLength(t) ==
    LET sign == IF t # <<>> /\ Head(t) = "-" THEN 1 ELSE 0
        whole == RunLength(Drop(t, sign), Range(Digits))
        afterWhole == Drop(t, sign + whole)
        decimals ==
            IF afterWhole # <<>> /\ Head(afterWhole) \in {".", ","}
            THEN RunLength(Tail(afterWhole), Range(Digits))
            ELSE 0
    IN  IF whole = 0 THEN 0
        ELSE IF decimals = 0 THEN sign + whole
        ELSE sign + whole + 1 + decimals

None == <<"None">>

\* re.match of the /new pattern: whether it matches, and its three groups
\* (None for a group that took no part).  t is the text without its leading
\* blanks, k the end of the names in it, u the text after the names and
\* the blanks behind them, n the length of the amount at the start of u.
match_groups(t, k, u, n) ==
    IF n = 0
    THEN [matched |-> FALSE, names |-> None, amount |-> <<>>, description |-> None]
    ELSE [matched |-> TRUE,
          names |-> IF k = 0 THEN None ELSE SubSeq(t, 1, k),
          amount |-> SubSeq(u, 1, n),
          description |-> IF lstrip(Drop(u, n)) = <<>> THEN None ELSE lstrip(Drop(u, n))]

match_amount(t, k, u) == match_groups(t, k, u, AmountLength(u))

match_names(t, k) == match_amount(t, k, lstrip(Drop(t, k)))

new_match(text) == match_names(lstrip(text), NamesEnd(lstrip(text)))

\* re.findall(r'[a-z]+', names), each capitalized.
RECURSIVE words_capitalized(_)
words_capitalized(names) ==
    IF names = <<>> THEN <<>>
    ELSE IF IsWord(Head(names))
         THEN <<(<<capitalize(Head(names))>>)>> \o words_capitalized(Tail(names))
         ELSE words_capitalized(Tail(names))

\* re.findall of DD.MM.YYYY in (description or ''): the dates of the
\* description, a date being one lexeme.
RECURSIVE dates_of(_)
dates_of(description) ==
    IF description = None \/ description = <<>> THEN <<>>
    ELSE IF Head(description) \in DateLexemes
         THEN <<Head(description)>> \o dates_of(Tail(description))
         ELSE dates_of(Tail(description))

\* description.replace(date, '')
RECURSIVE without(_, _)
without(description, date) ==
    IF description = <<>> THEN <<>>
    ELSE IF Head(description) = date THEN without(Tail(description), date)
    ELSE <<Head(description)>> \o without(Tail(description), date)

\* The configuration of the handler.
ConfigAliases == {<<"bobby", "bob">>}
ConfigDefaultForWhom == {<<"alice", << <<"Bob">>, <<"Charlie">> >> >>}
Today == "today"

alias_of(from_name) ==
    IF \E a \in ConfigAliases : a[1] = from_name
    THEN (CHOOSE a \in ConfigAliases : a[1] = from_name)[2]
    ELSE from_name

has_default(from_name) == \E d \in ConfigDefaultForWhom : d[1] = from_name

default_for_whom(from_name) ==
    (CHOOSE d \in ConfigDefaultForWhom : d[1] = from_name)[2]

\* The record _handle_new hands to sheet.append, from the donor, the
\* debtors, the amount and the description of the message.
record_of(donor, debtors, amount, description, dates) ==
    [reply |-> "/new: success",
     date |-> IF dates # <<>> THEN dates[1] ELSE Today,
     item |-> IF dates # <<>> THEN strip(without(description, dates[1])) ELSE description,
     creditor |-> IF Head(amount) = "-" THEN debtors[1] ELSE donor,
     debtor |-> join_plus(IF Head(amount) = "-" THEN <<donor>> ELSE debtors),
     amount |-> Drop(amount, RunLength(amount, {"-"}))]

\* _handle_new after the match: the reply it sends without appending, or
\* the record it appends.
handle_match(from_name, match) ==
    IF ~match.matched
    THEN [reply |-> "/new: unknown_format"]
    ELSE IF match.names = None /\ ~has_default(from_name)
    THEN [reply |-> "/new: missing_for_whom"]
    ELSE IF /\ Head(match.amount) = "-"
            /\ Len(IF match.names # None THEN words_capitalized(match.names)
                   ELSE default_for_whom(from_name)) > 1
    THEN [reply |-> "/new: negative_amount_can_refer_to_only_one_debtor"]
    ELSE record_of(<<capitalize(alias_of(from_name))>>,
                   IF match.names # None THEN words_capitalized(match.names)
                   ELSE default_for_whom(from_name),
                   match.amount, match.description, dates_of(match.description))

\* What _handle_new does with a message up to the call of sheet.append.
new_record(msg) == handle_match(lower(msg.first_name), new_match(msg.text))

(***************************************************************************)
(* The calls of compute_recipients the model makes: every address of at    *)
(* most MaxExprLen lexemes and the five addresses of the doctest, with no  *)
(* group table, an empty one, and tables over the doctest's index and      *)
(* columns.                                                                *)
(***************************************************************************)
AddressLexemes ==
    {Blank} \cup AndSeps \cup MinusSeps \cup Range(Words)

RECURSIVE SeqsUpTo(_, _)
SeqsUpTo(S, n) ==
    IF n = 0 THEN {<<>>}
    ELSE LET shorter == SeqsUpTo(S, n - 1)
         IN  shorter \cup {Append(s, x) : s \in shorter, x \in S}

Example1 == <<"Alice", " ", "+", " ", "Ice Cream", " ", "+", " ", "Doris">>
Example2 == <<"Alice", " ", "&", " ", "Bob", " ", "&", " ", "Charlie">>
Example3 == <<"Pizza", ";", " ", "Ice Cream">>
Example4 == <<"Doris", " ", "+", " ", "Ice Cream", " ", "-", " ", "Bob">>
Example5 == <<"Ice Cream", " ", "+", " ", "Pizza", " ", "\\", " ", "Alice">>
Examples == {Example1, Example2, Example3, Example4, Example5}

Addresses == SeqsUpTo(AddressLexemes, MaxExprLen) \cup Examples

GroupIndex == {<<"Alice">>, <<"Bob">>, <<"Charlie">>}
GroupColumns == {<<"Ice Cream">>, <<"Pizza">>}
GroupCells ==
    { <<(<<"Alice">>), (<<"Ice Cream">>)>>, <<(<<"Bob">>), (<<"Ice Cream">>)>>,
      <<(<<"Alice">>), (<<"Pizza">>)>>, <<(<<"Charlie">>), (<<"Pizza">>)>> }

\* The table g of the doctest.
DocGroups ==
    [none |-> FALSE, columns |-> GroupColumns, index |-> GroupIndex,
     notnull |-> { <<(<<"Alice">>), (<<"Ice Cream">>)>>,
                   <<(<<"Bob">>), (<<"Ice Cream">>)>>,
                   <<(<<"Alice">>), (<<"Pizza">>)>> }]

GroupTables ==
    {NoGroups, EmptyFrame}
    \cup {[none |-> FALSE, columns |-> GroupColumns, index |-> GroupIndex, notnull |-> c] :
             c \in SUBSET GroupCells}

Pending == [raised |-> "pending", value |-> <<>>]

IdleRecipients ==
    /\ address = <<>>
    /\ groups = NoGroups
    /\ recipients = Pending

IdleEntry ==
    /\ sheet = <<>>
    /\ reply = "none"
    /\ history = <<>>
    /\ undo_timer = "initial"

\* No thread is in summary.
IdleCalls ==
    /\ calls = <<>>
    /\ notes_steps = <<>>

\* No Timer has been started and the message loop is in no call of Sheets.
IdleUndo ==
    /\ timers = <<>>
    /\ now = 0
    /\ handling = [at |-> "idle"]
    /\ log = <<>>

IdleSummary ==
    /\ df_in = <<>>
    /\ pc = "idle"
    /\ raised = "none"
    /\ df = <<>>
    /\ df_expanded = <<>>
    /\ df_stacked = <<>>
    /\ df_summed = <<>>
    /\ total_received = <<>>
    /\ total_paid = <<>>
    /\ balances = <<>>
    /\ transfers = <<>>
    /\ steps = <<>>

InitRecipients ==
    /\ address \in Addresses
    /\ groups \in GroupTables
    /\ recipients = Pending
    /\ IdleSummary
    /\ IdleEntry
    /\ IdleCalls
    /\ IdleUndo

CallRecipients ==
    /\ recipients = Pending
    /\ recipients' = compute_recipients(address, groups)
    /\ UNCHANGED <<address, groups>>
    /\ UNCHANGED <<svars, evars, cvars, uvars>>

NextRecipients == CallRecipients

SpecRecipients == InitRecipients /\ [][NextRecipients]_vars

(***************************************************************************)
(* The ledgers the model hands to summary: at most MaxRecords records.     *)
(* The amounts are multiples of 0.75 with a power of two as denominator,   *)
(* so that the shares of one, two and three debtors are exact.             *)
(***************************************************************************)
LedgerCreditors == {<<"Alice">>, <<"Bob">>, <<" ", "Charlie">>}

LedgerDebtors ==
    { <<"Alice">>,
      <<"Bob">>,
      <<"Bob", " ", "+", " ", "Charlie">>,
      <<"Alice", " ", "&", " ", "Bob", ";", "Charlie">>,
      <<"Alice", " ", "+", " ", "Alice">>,
      <<"Charlie", " ", "\\", " ", "Charlie">> }

LedgerAmounts == {<<"0", ".", "7", "5">>, <<"6">>}

LedgerRecords ==
    {[date |-> <<"1">>, item |-> <<"Pizza">>, creditor |-> c, debtor |-> d, amount |-> a] :
        c \in LedgerCreditors, d \in LedgerDebtors, a \in LedgerAmounts}
    \cup
    { [date |-> <<"1">>, item |-> <<"Ice Cream", " ">>, creditor |-> <<"Bob">>,
       debtor |-> <<"Alice", " ", "+", " ", "Bob", " ", "-", " ", "Bob">>,
       amount |-> <<" ", "3">>],
      [date |-> <<"1">>, item |-> <<"Pizza">>, creditor |-> <<"Alice">>,
       debtor |-> <<"Bob">>, amount |-> <<"1", ",", "5">>] }

Ledgers == SeqsUpTo(LedgerRecords, MaxRecords)

\* summary(df) has been called.
Init ==
    /\ IdleRecipients
    /\ IdleCalls
    /\ IdleUndo
    /\ IdleEntry
    /\ df_in \in Ledgers
    /\ pc = "called"
    /\ raised = "none"
    /\ df = <<>>
    /\ df_expanded = <<>>
    /\ df_stacked = <<>>
    /\ df_summed = <<>>
    /\ total_received = <<>>
    /\ total_paid = <<>>
    /\ balances = <<>>
    /\ transfers = <<>>
    /\ steps = <<>>

Raise(exception) ==
    /\ pc' = "raised"
    /\ raised' = exception

\* Lines 116-124: the columns are picked and stripped, the amounts become
\* floats, the notes are created and get the step 'Outlay'.  Notes.add reads
\* the first debtor, which an empty table has not.
Outlay ==
    /\ pc = "called"
    /\ IF ~amounts_parse(df_in)
       THEN Raise("ValueError") /\ UNCHANGED <<df, steps>>
       ELSE IF df_in = <<>>
       THEN Raise("IndexError") /\ df' = <<>> /\ UNCHANGED steps
       ELSE /\ df' = kept(outlay(df_in), add_frame(<<>>, outlay(df_in), "Outlay", FALSE))
            /\ steps' = add_frame(<<>>, outlay(df_in), "Outlay", FALSE)
            /\ pc' = "outlay"
            /\ UNCHANGED raised
    /\ UNCHANGED <<df_in, df_expanded, df_stacked, df_summed, total_received,
                   total_paid, balances, transfers>>
    /\ UNCHANGED <<rvars, evars, cvars, uvars>>

\* Lines 126-128.
Expanded ==
    /\ pc = "outlay"
    /\ df_expanded' = kept(expanded(df),
                            add_frame(steps, expanded(df), "Outlay (expanded)", TRUE))
    /\ steps' = add_frame(steps, expanded(df), "Outlay (expanded)", TRUE)
    /\ pc' = "expanded"
    /\ UNCHANGED <<df_in, raised, df, df_stacked, df_summed, total_received,
                   total_paid, balances, transfers>>
    /\ UNCHANGED <<rvars, evars, cvars, uvars>>

\* Lines 130-138.
Stacked ==
    /\ pc = "expanded"
    /\ df_stacked' = kept(stacked(df_expanded),
                           add_stacked(steps, stacked(df_expanded), "Outlay (stacked)"))
    /\ steps' = add_stacked(steps, stacked(df_expanded), "Outlay (stacked)")
    /\ pc' = "stacked"
    /\ UNCHANGED <<df_in, raised, df, df_expanded, df_summed, total_received,
                   total_paid, balances, transfers>>
    /\ UNCHANGED <<rvars, evars, cvars, uvars>>

\* Lines 140-141.
Summed ==
    /\ pc = "stacked"
    /\ df_summed' = kept(groupby_sum(df_stacked),
                          add_rounded(steps, groupby_sum(df_stacked), "Outlay (summed)"))
    /\ steps' = add_rounded(steps, groupby_sum(df_stacked), "Outlay (summed)")
    /\ pc' = "summed"
    /\ UNCHANGED <<df_in, raised, df, df_expanded, df_stacked, total_received,
                   total_paid, balances, transfers>>
    /\ UNCHANGED <<rvars, evars, cvars, uvars>>

\* Lines 143-151.  When no row is in any group df_summed is an empty frame;
\* whether unstack and the sums accept it depends on the pandas at hand, so
\* the call either raises here or goes on with empty totals.
Expenses ==
    /\ pc = "summed"
    /\ \E accepted \in BOOLEAN :
          /\ DOMAIN df_summed # {} => accepted
          /\ IF accepted
             THEN /\ total_received' = received_of(df_summed)
                  /\ total_paid' = paid_of(df_summed)
                  /\ steps' = Append(steps, Step("Expenses", expenses_shown(df_summed)))
                  /\ pc' = "expenses"
                  /\ UNCHANGED raised
             ELSE /\ Raise("ValueError")
                  /\ UNCHANGED <<total_received, total_paid, steps>>
    /\ UNCHANGED <<df_in, df, df_expanded, df_stacked, df_summed, balances, transfers>>
    /\ UNCHANGED <<rvars, evars, cvars, uvars>>

\* Lines 153-157.
Balances ==
    /\ pc = "expenses"
    /\ balances' = subtract_fill(total_paid, total_received)
    /\ steps' = add_rounded(steps, subtract_fill(total_paid, total_received), "Balances")
    /\ transfers' = <<>>
    /\ pc' = "balances"
    /\ UNCHANGED <<df_in, raised, df, df_expanded, df_stacked, df_summed,
                   total_received, total_paid>>
    /\ UNCHANGED <<rvars, evars, cvars, uvars>>

\* Lines 158-169: one iteration of `while balances.size > 1`.
Settle ==
    /\ pc = "balances"
    /\ Cardinality(DOMAIN balances) > 1
    /\ balances' = settle_step(balances, transfers).balances
    /\ transfers' = settle_step(balances, transfers).transfers
    /\ steps' = steps_kept(steps, settle_step(balances, transfers).balances)
    /\ UNCHANGED <<df_in, pc, raised, df, df_expanded, df_stacked, df_summed,
                   total_received, total_paid>>
    /\ UNCHANGED <<rvars, evars, cvars, uvars>>

\* Lines 171-175: the loop is left, the step 'Clearing' is added and the
\* steps are returned.
Clearing ==
    /\ pc = "balances"
    /\ Cardinality(DOMAIN balances) <= 1
    /\ steps' = Append(steps, Step("Clearing", clearing(transfers)))
    /\ pc' = "returned"
    /\ UNCHANGED <<df_in, raised, df, df_expanded, df_stacked, df_summed,
                   total_received, total_paid, balances, transfers>>
    /\ UNCHANGED <<rvars, evars, cvars, uvars>>

Next ==
    \/ Outlay
    \/ Expanded
    \/ Stacked
    \/ Summed
    \/ Expenses
    \/ Balances
    \/ Settle
    \/ Clearing

Spec == Init /\ [][Next]_vars

\* Sheets._new_accounting_period: the table it takes from what summary
\* returned, self._summary(old_table)[0][-1][1], to build the carry-over.
carry_over_table(returned_steps) == returned_steps[Len(returned_steps)].table

(***************************************************************************)
(* The settlement on its own: summary from line 153 on, with arbitrary     *)
(* totals, so that the balances the loop starts from need not sum to zero. *)
(* The loop runs in one thread and goes on as long as it can.              *)
(***************************************************************************)
SettlePersons == {<<"Alice">>, <<"Bob">>, <<"Charlie">>}
SettleTotals == {0, 750, 6000}

Totals == UNION {[P -> SettleTotals] : P \in SUBSET SettlePersons}

InitSettle ==
    /\ IdleRecipients
    /\ IdleCalls
    /\ IdleUndo
    /\ IdleEntry
    /\ df_in = <<>>
    /\ pc = "expenses"
    /\ raised = "none"
    /\ df = <<>>
    /\ df_expanded = <<>>
    /\ df_stacked = <<>>
    /\ df_summed = <<>>
    /\ total_received \in Totals
    /\ total_paid \in Totals
    /\ balances = <<>>
    /\ transfers = <<>>
    /\ steps = <<>>

NextSettle ==
    \/ Balances
    \/ Settle
    \/ Clearing

SpecSettle == InitSettle /\ [][NextSettle]_vars /\ WF_vars(NextSettle)

(***************************************************************************)
(* summary called by two threads at once, the message loop (/summary) and  *)
(* the supervisor of the accounting periods, each on the frame that        *)
(* Sheets._summary built for it.  A call is the record of its locals; the  *)
(* steps are in the list of the Notes instance the call created.  A stage  *)
(* with its notes.add is one step of a thread, as in the actions above.    *)
(***************************************************************************)
Threads == {"loop", "supervisor"}

\* (a slip that keeps the steps in one list of the class)
notes_shared(thread) == "loop"

\* notes = Notes(df.columns): every call creates its instance, and
\* Notes.__init__ gives the instance its own list.
notes_instance(thread) == thread

\* The locals of a call of summary(df) on entry; accepts: whether the pandas
\* at hand accepts a summed table without rows (see Expenses).
called(frame, accepts) ==
    [df_in |-> frame, accepts |-> accepts, pc |-> "called", raised |-> "none",
     df |-> <<>>, df_expanded |-> <<>>, df_stacked |-> <<>>, df_summed |-> <<>>,
     total_received |-> <<>>, total_paid |-> <<>>, balances |-> <<>>,
     transfers |-> <<>>]

after(call, steps_after) == [call |-> call, steps |-> steps_after]

\* Lines 116-124.
stage_outlay(s, st) ==
    IF ~amounts_parse(s.df_in)
    THEN after([s EXCEPT !.pc = "raised", !.raised = "ValueError"], st)
    ELSE IF s.df_in = <<>>
    THEN after([s EXCEPT !.pc = "raised", !.raised = "IndexError"], st)
    ELSE after([s EXCEPT !.pc = "outlay",
                         !.df = kept(outlay(s.df_in),
                                     add_frame(st, outlay(s.df_in), "Outlay", FALSE))],
               add_frame(st, outlay(s.df_in), "Outlay", FALSE))

\* Lines 126-128.
stage_expanded(s, st) ==
    after([s EXCEPT !.pc = "expanded",
                    !.df_expanded = kept(expanded(s.df),
                                         add_frame(st, expanded(s.df),
                                                   "Outlay (expanded)", TRUE))],
          add_frame(st, expanded(s.df), "Outlay (expanded)", TRUE))

\* Lines 130-138.
stage_stacked(s, st) ==
    after([s EXCEPT !.pc = "stacked",
                    !.df_stacked = kept(stacked(s.df_expanded),
                                        add_stacked(st, stacked(s.df_expanded),
                                                    "Outlay (stacked)"))],
          add_stacked(st, stacked(s.df_expanded), "Outlay (stacked)"))

\* Lines 140-141.
stage_summed(s, st) ==
    after([s EXCEPT !.pc = "summed",
                    !.df_summed = kept(groupby_sum(s.df_stacked),
                                       add_rounded(st, groupby_sum(s.df_stacked),
                                                   "Outlay (summed)"))],
          add_rounded(st, groupby_sum(s.df_stacked), "Outlay (summed)"))

\* Lines 143-151.
stage_expenses(s, st) ==
    IF DOMAIN s.df_summed = {} /\ ~s.accepts
    THEN after([s EXCEPT !.pc = "raised", !.raised = "ValueError"], st)
    ELSE after([s EXCEPT !.pc = "expenses",
                         !.total_received = received_of(s.df_summed),
                         !.total_paid = paid_of(s.df_summed)],
               Append(st, Step("Expenses", expenses_shown(s.df_summed))))

\* Lines 153-157.
stage_balances(s, st) ==
    after([s EXCEPT !.pc = "balances",
                    !.balances = subtract_fill(s.total_paid, s.total_received),
                    !.transfers = <<>>],
          add_rounded(st, subtract_fill(s.total_paid, s.total_received), "Balances"))

\* Lines 158-175: an iteration of the loop, or the step 'Clearing' and the
\* return.
stage_settle(s, st) ==
    IF Cardinality(DOMAIN s.balances) > 1
    THEN after([s EXCEPT !.balances = settle_step(s.balances, s.transfers).balances,
                         !.transfers = settle_step(s.balances, s.transfers).transfers],
               steps_kept(st, settle_step(s.balances, s.transfers).balances))
    ELSE after([s EXCEPT !.pc = "returned"],
               Append(st, Step("Clearing", clearing(s.transfers))))

\* The next stage of the call s, whose Notes instance holds the steps st.
summary_stage(s, st) ==
    CASE s.pc = "called" -> stage_outlay(s, st)
      [] s.pc = "outlay" -> stage_expanded(s, st)
      [] s.pc = "expanded" -> stage_stacked(s, st)
      [] s.pc = "stacked" -> stage_summed(s, st)
      [] s.pc = "summed" -> stage_expenses(s, st)
      [] s.pc = "expenses" -> stage_balances(s, st)
      [] s.pc = "balances" -> stage_settle(s, st)

\* The frames of the two calls: ledgers of at most MaxRecords records.
ConcurrentRecords ==
    { [date |-> <<"1">>, item |-> <<"Pizza">>, creditor |-> <<"Alice">>,
       debtor |-> <<"Bob", " ", "+", " ", "Charlie">>, amount |-> <<"0", ".", "7", "5">>],
      [date |-> <<"1">>, item |-> <<"Pizza">>, creditor |-> <<"Bob">>,
       debtor |-> <<"Alice">>, amount |-> <<"6">>],
      [date |-> <<"1">>, item |-> <<"Pizza">>, creditor |-> <<"Bob">>,
       debtor |-> <<"Charlie", " ", "\\", " ", "Charlie">>, amount |-> <<"6">>] }

ConcurrentLedgers == SeqsUpTo(ConcurrentRecords, MaxRecords)

InitConcurrent ==
    /\ IdleRecipients
    /\ IdleSummary
    /\ IdleEntry
    /\ IdleUndo
    /\ \E accepts \in BOOLEAN :
          calls \in [Threads -> {called(frame, accepts) : frame \in ConcurrentLedgers}]
    /\ notes_steps = [thread \in Threads |-> <<>>]

\* One stage of one thread's call.
Stage(thread) ==
    /\ calls[thread].pc \notin {"returned", "raised"}
    /\ calls' = [calls EXCEPT ![thread] =
                    summary_stage(@, notes_steps[notes_instance(thread)]).call]
    /\ notes_steps' = [notes_steps EXCEPT ![notes_instance(thread)] =
                          summary_stage(calls[thread], @).steps]
    /\ UNCHANGED <<rvars, svars, evars, uvars>>

NextConcurrent == \E thread \in Threads : Stage(thread)

SpecConcurrent == InitConcurrent /\ [][NextConcurrent]_vars

(***************************************************************************)
(* The bot: /new and /summary messages handled one at a time by the        *)
(* message loop, on a spreadsheet that starts with empty tables.           *)
(***************************************************************************)
CurrentTable == "current"
Tables == {CurrentTable, "2019-12"}

\* record[0].strftime(table_name_format): the table of a date.
table_name(date) == IF date = Today THEN CurrentTable ELSE "2019-12"

\* The /new messages of the model: every way of writing the amount, for one
\* debtor; every way of naming the debtors, from both senders, for a
\* positive and a negative amount; a dated description; two texts the
\* pattern does not match.
MessageAmounts ==
    { <<"3">>, <<"1", ".", "5">>, <<"1", ",", "5">>,
      <<"-", "3">>, <<"-", "1", ",", "5">> }

MessageNames == {<<>>, <<"bob">>, <<"bob", ",", " ", "Charlie">>}

Messages ==
    {[first_name |-> "Alice", text |-> <<"bob", " ">> \o a \o <<" ", "Pizza">>] :
        a \in MessageAmounts}
    \cup
    {[first_name |-> f, text |-> n \o <<" ">> \o a] :
        f \in {"Alice", "Bobby"}, n \in MessageNames, a \in {<<"3">>, <<"-", "3">>}}
    \cup
    {[first_name |-> "Bobby",
      text |-> <<"alice", "3", " ", "Pizza", " ", "24.12.2019">>],
     [first_name |-> "Alice", text |-> <<"bob", " ", "Pizza">>],
     [first_name |-> "Alice", text |-> <<"bob", ",", "3">>]}

SheetRows == Len(sheet[CurrentTable]) + Len(sheet["2019-12"])

\* The row the spreadsheet keeps for a record: its texts; an absent
\* description is an empty cell.
sheet_row(r) ==
    [date |-> <<r.date>>,
     item |-> IF r.item = None THEN <<>> ELSE r.item,
     creditor |-> r.creditor,
     debtor |-> r.debtor,
     amount |-> r.amount]

\* The spreadsheet after the append request for record r.
appended(sh, r) == [sh EXCEPT ![table_name(r.date)] = Append(@, sheet_row(r))]

\* Sheets.Record(table_name, row, data) of the appended record; row 1 is
\* the header.
appended_item(sh, r) ==
    [table |-> table_name(r.date),
     row |-> Len(sh[table_name(r.date)]) + 2,
     data |-> sheet_row(r)]

InitEntry ==
    /\ IdleRecipients
    /\ IdleCalls
    /\ IdleUndo
    /\ IdleSummary
    /\ sheet = [t \in Tables |-> <<>>]
    /\ reply = "none"
    /\ history = <<>>
    /\ undo_timer = "initial"

\* Handler._handle_new with Sheets.append.  The append request either is
\* answered or raises; the exception ends the handler with the reply 'oops'.
HandleNew ==
    /\ pc = "idle"
    /\ \E msg \in Messages :
          IF new_record(msg).reply # "/new: success"
          THEN /\ reply' = new_record(msg).reply
               /\ UNCHANGED <<sheet, history, undo_timer>>
          ELSE /\ SheetRows < MaxRows
               /\ \E answered \in BOOLEAN :
                     IF answered
                     THEN /\ sheet' = appended(sheet, new_record(msg))
                          /\ history' = <<appended_item(sheet, new_record(msg))>>
                          /\ undo_timer' = "started"
                          /\ reply' = "/new: success"
                     ELSE /\ undo_timer' = "cancelled"
                          /\ reply' = "oops"
                          /\ UNCHANGED <<sheet, history>>
    /\ UNCHANGED <<rvars, svars, cvars, uvars>>

\* Handler._handle_summary up to the call of stats.summary: Sheets._summary
\* reads the rows of the current table into a frame.
HandleSummary ==
    /\ pc = "idle"
    /\ df_in' = sheet[CurrentTable]
    /\ pc' = "called"
    /\ UNCHANGED <<raised, df, df_expanded, df_stacked, df_summed, total_received,
                   total_paid, balances, transfers, steps>>
    /\ UNCHANGED <<rvars, evars, cvars, uvars>>

\* The end of Handler._handle_summary: the summary is sent, or the
\* exception of summary is reported by Handler.handle.
SendSummary ==
    /\ pc \in {"returned", "raised"}
    /\ reply' = IF pc = "returned" THEN "/summary: caption" ELSE "oops"
    /\ df_in' = <<>>
    /\ pc' = "idle"
    /\ raised' = "none"
    /\ df' = <<>>
    /\ df_expanded' = <<>>
    /\ df_stacked' = <<>>
    /\ df_summed' = <<>>
    /\ total_received' = <<>>
    /\ total_paid' = <<>>
    /\ balances' = <<>>
    /\ transfers' = <<>>
    /\ steps' = <<>>
    /\ UNCHANGED <<sheet, history, undo_timer>>
    /\ UNCHANGED <<rvars, cvars, uvars>>

NextEntry ==
    \/ HandleNew
    \/ HandleSummary
    \/ Outlay
    \/ Expanded
    \/ Stacked
    \/ Summed
    \/ Expenses
    \/ Balances
    \/ Settle
    \/ Clearing
    \/ SendSummary

SpecEntry == InitEntry /\ [][NextEntry]_vars

(***************************************************************************)
(* Sheets.append and Sheets.undo with the Timer threads.  The message loop *)
(* handles one message at a time; every Timer that append starts is a      *)
(* thread of its own.  The clock counts in units of config['undo_timer']   *)
(* seconds, and it does not advance while a Timer whose interval is over   *)
(* has not yet run: Timers are never late.                                 *)
(***************************************************************************)
MaxCalls == 3
MaxTime == 2

\* The interval of the Timer that append starts, in units of the clock.
UndoTimer == 1

\* The texts of Sheets.messages, as items of the history.
Expired == [str |-> "undo: expired"]
Exceeded == [str |-> "undo: exceeded"]
NoneToUndo == [str |-> "undo: none"]

\* isinstance(item, str)
isinstance_str(item) == "str" \in DOMAIN item

\* deque(maxlen=1).append: a full deque drops its oldest item.
deque_append(h, item) ==
    IF Len(h) < 1 THEN Append(h, item) ELSE Tail(Append(h, item))

\* Sheets._history_append, under the lock.
history_append(h, item) == deque_append(h, item)

\* The slip of a replace that reads the last item and leaves the deque as
\* it is.
history_replace_peek(h, item) == [old |-> h, history |-> h]

\* Sheets._history_replace, under the lock: `old` is the popped item in a
\* list, or the empty list where the code has None.
history_replace(h, item) ==
    [old |-> IF h = <<>> THEN <<>> ELSE <<h[Len(h)]>>,
     history |-> deque_append(IF h = <<>> THEN h ELSE SubSeq(h, 1, Len(h) - 1), item)]

\* Timer.cancel on self.undo_timer, the Timer started last: a Timer still
\* waiting for its interval never calls its function; one that has seen
\* its interval end is not stopped.
cancelled(ts) ==
    IF ts # <<>> /\ ts[Len(ts)].state = "waiting"
    THEN [ts EXCEPT ![Len(ts)].state = "cancelled"]
    ELSE ts

\* The record of the n-th call of Sheets, dated today or on 24.12.2019.
UndoDates == {Today, "24.12.2019"}

nth_record(n, date) ==
    [date |-> date, item |-> <<"Pizza", " ", ToString(n)>>,
     creditor |-> <<"Alice">>, debtor |-> <<"Bob">>, amount |-> <<"3">>]

\* A row without values, and the rows up to the last one with values.
BlankRow ==
    [date |-> <<>>, item |-> <<>>, creditor |-> <<>>, debtor |-> <<>>,
     amount |-> <<>>]

RECURSIVE used_rows(_)
used_rows(rows) ==
    IF rows = <<>> \/ rows[Len(rows)] # BlankRow
    THEN rows
    ELSE used_rows(SubSeq(rows, 1, Len(rows) - 1))

\* The values the get request of undo finds in the item's row.
has_values(sh, item) ==
    /\ item.row - 1 \in DOMAIN sh[item.table]
    /\ sh[item.table][item.row - 1] # BlankRow

\* The spreadsheet after the clear request of undo.
cleared(sh, item) ==
    IF item.row - 1 \in DOMAIN sh[item.table]
    THEN [sh EXCEPT ![item.table] = used_rows([@ EXCEPT ![item.row - 1] = BlankRow])]
    ELSE sh

InitUndo ==
    /\ IdleRecipients
    /\ IdleCalls
    /\ IdleSummary
    /\ IdleUndo
    /\ sheet = [t \in Tables |-> <<>>]
    /\ reply = "none"
    /\ history = <<>>
    /\ undo_timer = "initial"

\* Sheets.append, line 83: the running Timer is cancelled.
AppendCancel ==
    /\ handling.at = "idle"
    /\ Len(log) < MaxCalls
    /\ \E date \in UndoDates :
          handling' = [at |-> "append", record |-> nth_record(Len(log) + 1, date)]
    /\ timers' = cancelled(timers)
    /\ undo_timer' = "cancelled"
    /\ UNCHANGED <<sheet, reply, history, now, log>>
    /\ UNCHANGED <<rvars, svars, cvars>>

\* Sheets.append, lines 84-92: the append request is answered, or it
\* raises and Handler.handle replies 'oops'.
AppendRequest ==
    /\ handling.at = "append"
    /\ \E answered \in BOOLEAN :
          IF answered
          THEN /\ sheet' = appended(sheet, handling.record)
               /\ handling' = [at |-> "answered",
                               item |-> appended_item(sheet, handling.record)]
               /\ UNCHANGED <<reply, log>>
          ELSE /\ handling' = [at |-> "idle"]
               /\ log' = Append(log, [op |-> "append", outcome |-> "HttpError",
                                      at |-> now])
               /\ reply' = "oops"
               /\ UNCHANGED sheet
    /\ UNCHANGED <<history, undo_timer, timers, now>>
    /\ UNCHANGED <<rvars, svars, cvars>>

\* Sheets.append, lines 93-96: the item is stored and its Timer started.
AppendStore ==
    /\ handling.at = "answered"
    /\ history' = history_append(history, handling.item)
    /\ timers' = Append(timers, [state |-> "waiting", deadline |-> now + UndoTimer])
    /\ undo_timer' = "started"
    /\ log' = Append(log, [op |-> "append", outcome |-> "returned",
                           item |-> handling.item, at |-> now,
                           timer |-> Len(timers) + 1])
    /\ reply' = "/new: success"
    /\ handling' = [at |-> "idle"]
    /\ UNCHANGED <<sheet, now>>
    /\ UNCHANGED <<rvars, svars, cvars>>

\* Sheets.undo, lines 99-101, with the replies of Handler._handle_undo.
UndoReplace ==
    /\ handling.at = "idle"
    /\ Len(log) < MaxCalls
    /\ history' = history_replace(history, Exceeded).history
    /\ IF history_replace(history, Exceeded).old = <<>>
       THEN /\ log' = Append(log, [op |-> "undo", outcome |-> "IndexError",
                                   message |-> NoneToUndo.str, at |-> now])
            /\ reply' = NoneToUndo.str
            /\ UNCHANGED handling
       ELSE IF isinstance_str(history_replace(history, Exceeded).old[1])
       THEN /\ log' = Append(log, [op |-> "undo", outcome |-> "IndexError",
                                   message |-> history_replace(history, Exceeded).old[1].str,
                                   at |-> now])
            /\ reply' = history_replace(history, Exceeded).old[1].str
            /\ UNCHANGED handling
       ELSE /\ handling' = [at |-> "undo", at_time |-> now,
                            item |-> history_replace(history, Exceeded).old[1]]
            /\ UNCHANGED <<log, reply>>
    /\ UNCHANGED <<sheet, undo_timer, timers, now>>
    /\ UNCHANGED <<rvars, svars, cvars>>

\* Sheets.undo, lines 102-107: the row is read and cleared, or a request
\* raises before anything is cleared; a row without values raises KeyError
\* after the clear request.
UndoClear ==
    /\ handling.at = "undo"
    /\ \E answered \in BOOLEAN :
          IF answered
          THEN /\ sheet' = cleared(sheet, handling.item)
               /\ log' = Append(log, [op |-> "undo",
                                      outcome |-> IF has_values(sheet, handling.item)
                                                  THEN "returned" ELSE "KeyError",
                                      item |-> handling.item, at |-> handling.at_time])
               /\ reply' = IF has_values(sheet, handling.item)
                           THEN "/undo: success" ELSE "oops"
          ELSE /\ log' = Append(log, [op |-> "undo", outcome |-> "HttpError",
                                      item |-> handling.item, at |-> handling.at_time])
               /\ reply' = "oops"
               /\ UNCHANGED sheet
    /\ handling' = [at |-> "idle"]
    /\ UNCHANGED <<history, undo_timer, timers, now>>
    /\ UNCHANGED <<rvars, svars, cvars>>

\* Timer.run: the interval is over and the Timer was not cancelled.
TimerElapses(k) ==
    /\ timers[k].state = "waiting"
    /\ timers[k].deadline <= now
    /\ timers' = [timers EXCEPT ![k].state = "expiring"]
    /\ UNCHANGED <<evars, now, handling, log>>
    /\ UNCHANGED <<rvars, svars, cvars>>

\* Timer.run: the function of the Timer, _history_append('undo: expired').
TimerExpires(k) ==
    /\ timers[k].state = "expiring"
    /\ history' = history_append(history, Expired)
    /\ timers' = [timers EXCEPT ![k].state = "finished"]
    /\ UNCHANGED <<sheet, reply, undo_timer, now, handling, log>>
    /\ UNCHANGED <<rvars, svars, cvars>>

\* The clock advances by one interval.
Tick ==
    /\ now < MaxTime
    /\ \A k \in DOMAIN timers :
          /\ timers[k].state # "expiring"
          /\ timers[k].state = "waiting" => timers[k].deadline > now
    /\ now' = now + 1
    /\ UNCHANGED <<evars, timers, handling, log>>
    /\ UNCHANGED <<rvars, svars, cvars>>

NextUndo ==
    \/ AppendCancel
    \/ AppendRequest
    \/ AppendStore
    \/ UndoReplace
    \/ UndoClear
    \/ \E k \in DOMAIN timers : TimerElapses(k)
    \/ \E k \in DOMAIN timers : TimerExpires(k)
    \/ Tick

SpecUndo == InitUndo /\ [][NextUndo]_vars



(***************************************************************************)
(* What the resolver is to return, stated on positions instead of by a     *)
(* scan: the pieces of a text between neighbouring separators, without the *)
(* blanks that touch a separator.                                          *)
(***************************************************************************)
SepPositions(s, seps) == {i \in 1..Len(s) : s[i] \in seps}

Neighbours(s, seps) ==
    LET P == SepPositions(s, seps) \cup {0, Len(s) + 1}
    IN  {<<lo, hi>> \in P \X P : lo < hi /\ ~\E m \in P : lo < m /\ m < hi}

PieceBetween(s, lo, hi) ==
    LET raw == SubSeq(s, lo + 1, hi - 1)
        left == IF lo > 0 THEN lstrip(raw) ELSE raw
    IN  IF hi <= Len(s) THEN rstrip(left) ELSE left

TermsOf(a) ==
    {PieceBetween(a, n[1], n[2]) : n \in Neighbours(a, AndSeps)}

AddTokenOf(term) ==
    LET n == CHOOSE m \in Neighbours(term, MinusSeps) : m[1] = 0
    IN  PieceBetween(term, n[1], n[2])

SubtractTokensOf(term) ==
    {PieceBetween(term, n[1], n[2]) :
        n \in {m \in Neighbours(term, MinusSeps) : m[1] > 0}}

ExpandToken(t, g) ==
    IF t \in g.columns THEN {p \in g.index : <<p, t>> \in g.notnull} ELSE {t}

ExpectedRecipients(a, g) ==
    UNION {ExpandToken(AddTokenOf(term), g) : term \in TermsOf(a)}
    \ UNION {ExpandToken(t, g) : t \in UNION {SubtractTokensOf(term) : term \in TermsOf(a)}}

StrictlySorted(seq) ==
    \A i, j \in 1..Len(seq) : i < j => StrLess(seq[i], seq[j])

Returned == recipients # Pending

\* C6: with a group table, compute_recipients returns the sorted,
\* duplicate-free list of the union of the expanded add tokens minus the
\* union of the expanded subtract tokens (the minus clauses apply to the
\* whole union), and the five worked examples give the documented lists.
C6_RecipientsAreUnionMinusUnion ==
    (Returned /\ ~groups.none) =>
        /\ recipients.raised = "none"
        /\ StrictlySorted(recipients.value)
        /\ Range(recipients.value) = ExpectedRecipients(address, groups)
        /\ (groups = DocGroups /\ address = Example1)
              => recipients.value = << <<"Alice">>, <<"Bob">>, <<"Doris">> >>
        /\ (groups = DocGroups /\ address = Example2)
              => recipients.value = << <<"Alice">>, <<"Bob">>, <<"Charlie">> >>
        /\ (groups = DocGroups /\ address = Example3)
              => recipients.value = << <<"Alice">>, <<"Bob">> >>
        /\ (groups = DocGroups /\ address = Example4)
              => recipients.value = << <<"Alice">>, <<"Doris">> >>
        /\ (groups = DocGroups /\ address = Example5)
              => recipients.value = << <<"Bob">> >>

\* C6 witness: the fifth worked example has been resolved against the
\* doctest's table: Alice, added by Ice Cream, is removed by Pizza's clause.
C6_Witness ==
    /\ Returned
    /\ groups = DocGroups
    /\ address = Example5
    /\ recipients.value = << <<"Bob">> >>

\* C7: without a group table (groups is None) the call returns the sorted
\* set of the add tokens minus the subtract tokens, every token taken as a
\* literal name, for every address.
C7_NoGroupsReturnsLiteralNames ==
    (Returned /\ groups.none) =>
        /\ recipients.raised = "none"
        /\ StrictlySorted(recipients.value)
        /\ Range(recipients.value) =
              {AddTokenOf(term) : term \in TermsOf(address)}
              \ UNION {SubtractTokensOf(term) : term \in TermsOf(address)}

(***************************************************************************)
(* Properties of summary.                                                  *)
(***************************************************************************)
\* The premise of the integer arithmetic: every share the model computes is
\* an exact quotient.
SharesAreExact ==
    \A i \in 1..Len(df_expanded) :
        df_expanded[i].debtor # <<>>
            => df_expanded[i].amount % Len(df_expanded[i].debtor) = 0

\* The balances as computed just before the settlement loop starts.
BalancesBeforeLoop == subtract_fill(total_paid, total_received)

RECURSIVE TransferSum(_, _, _)
TransferSum(t, column, person) ==
    IF t = <<>> THEN 0
    ELSE (IF Head(t)[column] = person THEN Head(t)[3] ELSE 0)
         + TransferSum(Tail(t), column, person)

\* What the transfers give a person (as Recipient) minus what they take (as
\* Writer).
NetOfTransfers(person) ==
    TransferSum(transfers, 2, person) - TransferSum(transfers, 1, person)

NonZeroPersons == {p \in DOMAIN BalancesBeforeLoop : BalancesBeforeLoop[p] # 0}

\* C1: when summary returns, for every person the amounts received as
\* Recipient minus the amounts paid as Writer equal the person's balance
\* as it was just before the settlement loop; nobody else is in a transfer.
C1_SettlementCorrect ==
    pc = "returned" =>
        /\ \A p \in DOMAIN BalancesBeforeLoop :
              NetOfTransfers(p) = BalancesBeforeLoop[p]
        /\ \A i \in 1..Len(transfers) :
              {transfers[i][1], transfers[i][2]} \subseteq DOMAIN BalancesBeforeLoop

\* C1 witness: summary has returned two transfers that settle three persons
\* with three different non-zero balances.
C1_Witness ==
    /\ pc = "returned"
    /\ Len(transfers) = 2
    /\ Cardinality(NonZeroPersons) = 3
    /\ Cardinality({BalancesBeforeLoop[p] : p \in NonZeroPersons}) = 3
    /\ transfers[1][3] # transfers[2][3]

\* C2: every transfer the settlement loop emits has an amount strictly
\* greater than zero.
C2_TransfersPositive ==
    \A i \in 1..Len(transfers) : transfers[i][3] > 0

\* C3: when at least two persons have a non-zero balance, the loop produces
\* at most (number of persons with a non-zero balance) - 1 transfers.
C3_TransfersBounded ==
    (pc = "returned" /\ Cardinality(NonZeroPersons) >= 2)
        => Len(transfers) <= Cardinality(NonZeroPersons) - 1

\* C4: the balances summary computes (total paid minus total received per
\* person, a missing entry counting as 0) sum to zero over all persons.
C4_BalancesSumToZero ==
    (pc = "balances" /\ transfers = <<>>) =>
        SumOver(balances, DOMAIN balances) = 0

\* C4 witness: the balances of three persons have just been computed, none
\* is zero, and one person only paid while another only received, so both
\* fills by 0 took place.
C4_Witness ==
    /\ pc = "balances"
    /\ transfers = <<>>
    /\ Cardinality(DOMAIN balances) = 3
    /\ \A p \in DOMAIN balances : balances[p] # 0
    /\ DOMAIN total_paid \ DOMAIN total_received # {}
    /\ DOMAIN total_received \ DOMAIN total_paid # {}

StackedRowsOf(i) == {k \in 1..Len(df_stacked) : df_stacked[k].record = i}

\* C5: for every record the stacked table holds exactly one row per person
\* of the record's debtor list, with the record's creditor and item and the
\* share amount / |debtors|, and the shares of the record sum to its amount.
C5_EvenSplit ==
    df_stacked # <<>> =>
        \A i \in 1..Len(df_expanded) :
            LET debtors == Range(df_expanded[i].debtor)
                rows == StackedRowsOf(i)
            IN  /\ \A p \in debtors :
                      Cardinality({k \in rows : df_stacked[k].debtor = p}) = 1
                /\ \A k \in rows :
                      /\ df_stacked[k].debtor \in debtors
                      /\ df_stacked[k].creditor = df_expanded[i].creditor
                      /\ df_stacked[k].item = df_expanded[i].item
                      /\ df_stacked[k].amount.kind = "finite"
                      /\ df_stacked[k].amount.v * Cardinality(debtors)
                            = df_expanded[i].amount
                /\ SumOver([k \in rows |-> df_stacked[k].amount.v], rows)
                      = df_expanded[i].amount

\* C8: a record whose debtor expression resolves to the empty list makes
\* the call fail; summary never returns with such a record in the table.
C8_EmptyDebtorsFail ==
    (\E i \in 1..Len(df_expanded) : df_expanded[i].debtor = <<>>)
        => pc # "returned"

Permuted(rows, f) == [k \in 1..Len(rows) |-> rows[f[k]]]

\* C10: the summed table holds exactly one cell per (creditor, debtor) pair
\* of the stacked rows, each cell is the sum of the shares of its pair, and
\* every permutation of the stacked rows gives the same table.
C10_Aggregation ==
    pc \in {"summed", "expenses", "balances", "returned"} =>
        LET pairs == {<<df_stacked[k].creditor, df_stacked[k].debtor>> :
                         k \in 1..Len(df_stacked)}
            rowsOf(pair) ==
                {k \in 1..Len(df_stacked) :
                    <<df_stacked[k].creditor, df_stacked[k].debtor>> = pair}
        IN  /\ DOMAIN df_summed = pairs
            /\ \A pair \in pairs :
                  df_summed[pair]
                    = SumOver([k \in rowsOf(pair) |-> df_stacked[k].amount.v], rowsOf(pair))
            /\ \A f \in Permutations(1..Len(df_stacked)) :
                  groupby_sum(Permuted(df_stacked, f)) = df_summed

(***************************************************************************)
(* Properties of the bot.                                                  *)
(***************************************************************************)
\* The same digits written with '.' for ','.
with_point(text) == [i \in 1..Len(text) |-> IF text[i] = "," THEN "." ELSE text[i]]

\* C9: an amount that /new accepted and stored with ',' as its decimal mark
\* is parsed by summary, without failing, to the number the same digits
\* written with '.' denote.
C9_CommaAmountParsed ==
    pc \notin {"idle", "called"} =>
        \A i \in 1..Len(df_in) :
            "," \in Range(df_in[i].amount) =>
                /\ pc # "raised"
                /\ df[i].amount = float(with_point(df_in[i].amount)).value

(***************************************************************************)
(* Properties of the balances and of the settlement loop.                  *)
(***************************************************************************)
\* The persons of the aggregated cells and, from the cells alone, what the
\* cells with a person as creditor hold minus what the cells with the
\* person as debtor hold.
CellPersons == {k[1] : k \in DOMAIN df_summed} \cup {k[2] : k \in DOMAIN df_summed}

CellsAs(column, person) == {k \in DOMAIN df_summed : k[column] = person}

CellBalance(person) ==
    SumOver(df_summed, CellsAs(1, person)) - SumOver(df_summed, CellsAs(2, person))

\* C11: exactly the persons of the aggregated cells get a balance, also
\* those who are only creditor or only debtor; the balance is the sum of
\* the cells with the person as creditor minus the sum of the cells with the
\* person as debtor; a person with a positive balance is the Recipient of a
\* transfer of a positive amount and never the Writer of one.
C11_BalancesFromCells ==
    /\ (pc = "balances" /\ transfers = <<>>) =>
          /\ DOMAIN balances = CellPersons
          /\ \A p \in CellPersons : balances[p] = CellBalance(p)
    /\ pc = "returned" =>
          \A p \in CellPersons :
              CellBalance(p) > 0 =>
                  /\ \E i \in 1..Len(transfers) :
                        transfers[i][2] = p /\ transfers[i][3] > 0
                  /\ \A i \in 1..Len(transfers) :
                        transfers[i][1] = p => transfers[i][3] = 0

\* C11 witness: summary has returned for a ledger with a person who is only
\* a creditor, a person who is only a debtor, and a transfer that pays the
\* former.
C11_Witness ==
    /\ pc = "returned"
    /\ \E p, q \in CellPersons :
          /\ CellsAs(2, p) = {} /\ CellsAs(1, q) = {}
          /\ CellBalance(p) > 0 /\ CellBalance(q) < 0
          /\ \E i \in 1..Len(transfers) : transfers[i] = <<q, p, transfers[i][3]>>
    /\ Cardinality(CellPersons) = 3

\* The alphabetically first person of a set.
FirstInOrder(S) == CHOOSE p \in S : \A q \in S \ {p} : StrLess(p, q)

Richest(b) == FirstInOrder({p \in DOMAIN b : \A q \in DOMAIN b : b[q] <= b[p]})
Poorest(b) == FirstInOrder({p \in DOMAIN b : \A q \in DOMAIN b : b[q] >= b[p]})

\* What one iteration is to do on the balances b: the amount that moves
\* from the poorest to the richest person, and who leaves the table.
GreedyAmount(b) ==
    IF b[Richest(b)] <= -b[Poorest(b)] THEN b[Richest(b)] ELSE -b[Poorest(b)]

GreedyRemoved(b) ==
    IF b[Richest(b)] >= -b[Poorest(b)] THEN Poorest(b) ELSE Richest(b)

GreedyBalances(b) ==
    [q \in DOMAIN b \ {GreedyRemoved(b)} |->
        b[q] - (IF q = Richest(b) THEN GreedyAmount(b) ELSE 0)
             + (IF q = Poorest(b) THEN GreedyAmount(b) ELSE 0)]

\* The balances and the transfers after n iterations from the balances b.
RECURSIVE GreedyAfter(_, _)
GreedyAfter(b, n) ==
    IF n = 0 THEN [balances |-> b, transfers |-> <<>>]
    ELSE LET before == GreedyAfter(b, n - 1)
         IN  [balances |-> GreedyBalances(before.balances),
              transfers |-> Append(before.transfers,
                                   <<Poorest(before.balances), Richest(before.balances),
                                     GreedyAmount(before.balances)>>)]

C13_LoopTerminates ==
    /\ <>(pc = "returned")
    /\ [][(pc = "balances" /\ transfers' # transfers) =>
            /\ Cardinality(DOMAIN balances') = Cardinality(DOMAIN balances) - 1
            /\ DOMAIN balances' \subseteq DOMAIN balances
            /\ Len(transfers') = Len(transfers) + 1]_vars
    /\ [](pc = "returned" =>
            Len(transfers) = max(0, Cardinality(DOMAIN BalancesBeforeLoop) - 1))

\* C13 witness: the loop has ended after two iterations on three persons
\* whose balances did not sum to zero and of which two were equal and one
\* was zero.
C13_Witness ==
    /\ pc = "returned"
    /\ Len(transfers) = 2
    /\ Cardinality(DOMAIN BalancesBeforeLoop) = 3
    /\ SumOver(BalancesBeforeLoop, DOMAIN BalancesBeforeLoop) # 0
    /\ \E p, q, r \in DOMAIN BalancesBeforeLoop :
          /\ p # q
          /\ BalancesBeforeLoop[p] = BalancesBeforeLoop[q]
          /\ BalancesBeforeLoop[r] = 0

\* The captions of the steps of summary, in the order of its stages.
StageCaptions ==
    <<"Outlay", "Outlay (expanded)", "Outlay (stacked)", "Outlay (summed)",
      "Expenses", "Balances", "Clearing">>

\* What summary returns is its steps (and their rendering); a warning would
\* be a step that is none of the stages' steps.
Warned == \E i \in 1..Len(steps) : steps[i].caption \notin Range(StageCaptions)

NegativeForOne ==
    { [msg |-> [first_name |-> "Alice", text |-> <<"bob", " ", "-", "3">>],
       sender |-> <<"Alice">>, named |-> <<"Bob">>, amount |-> <<"3">>],
      [msg |-> [first_name |-> "Bobby", text |-> <<"bob", " ", "-", "3">>],
       sender |-> <<"Bob">>, named |-> <<"Bob">>, amount |-> <<"3">>],
      [msg |-> [first_name |-> "Alice",
                text |-> <<"bob", " ", "-", "3", " ", "Pizza">>],
       sender |-> <<"Alice">>, named |-> <<"Bob">>, amount |-> <<"3">>],
      [msg |-> [first_name |-> "Alice",
                text |-> <<"bob", " ", "-", "1", ",", "5", " ", "Pizza">>],
       sender |-> <<"Alice">>, named |-> <<"Bob">>, amount |-> <<"1", ",", "5">>] }

\* The /new messages with a negative amount for two debtors, named in the
\* message or taken from the sender's default.
NegativeForMore ==
    { [first_name |-> "Alice", text |-> <<"bob", ",", " ", "Charlie", " ", "-", "3">>],
      [first_name |-> "Bobby", text |-> <<"bob", ",", " ", "Charlie", " ", "-", "3">>],
      [first_name |-> "Alice", text |-> <<" ", "-", "3">>] }

\* The transfers of a ledger of one record, creditor c, debtor d, amount v.
TransfersOfOne(c, d, v) == IF c = d THEN <<>> ELSE << <<d, c, v>> >>

\* C16: a /new with a negative amount and one debtor appends the record
\* with the named debtor as creditor, the sender as the only debtor and
\* the amount without its sign, and summary on that record returns the
\* mirrored transfer (the sender pays the named person); a /new with a
\* negative amount and more than one debtor appends nothing.
C16_NegativeAmountSwaps ==
    /\ [](\A c \in NegativeForOne :
            /\ c.msg \in Messages
            /\ new_record(c.msg).reply = "/new: success"
            /\ new_record(c.msg).creditor = c.named
            /\ new_record(c.msg).debtor = c.sender
            /\ new_record(c.msg).amount = c.amount
            /\ (/\ pc \in {"returned", "raised"}
                /\ df_in = <<sheet_row(new_record(c.msg))>>)
                  => /\ pc = "returned"
                     /\ transfers = TransfersOfOne(c.named, c.sender,
                                                   float(with_point(c.amount)).value))
    /\ [](\A m \in NegativeForMore :
            /\ m \in Messages
            /\ new_record(m).reply = "/new: negative_amount_can_refer_to_only_one_debtor")
    /\ [][reply' = "/new: negative_amount_can_refer_to_only_one_debtor"
            => sheet' = sheet]_vars

\* The number of steps summary has added when it is at pc.
StepsAt(at) ==
    CASE at = "called" -> 0
      [] at = "outlay" -> 1
      [] at = "expanded" -> 2
      [] at = "stacked" -> 3
      [] at = "summed" -> 4
      [] at = "expenses" -> 5
      [] at = "balances" -> 6
      [] at = "returned" -> 7

\* C17: a run of summary that returns, returns exactly the seven steps
\* Outlay, Outlay (expanded), Outlay (stacked), Outlay (summed), Expenses,
\* Balances, Clearing in this order; the step of a stage is there before
\* the next stage is computed; steps are never removed or reordered; the
\* last step is the table of the transfers, which _new_accounting_period
\* reads.
C17_StageOrder ==
    /\ [](/\ Len(steps) <= 7
          /\ \A i \in 1..Len(steps) : steps[i].caption = StageCaptions[i]
          /\ pc # "raised" => Len(steps) = StepsAt(pc)
          /\ df_expanded # <<>> => Len(steps) >= 2
          /\ df_stacked # <<>> => Len(steps) >= 3
          /\ DOMAIN df_summed # {} => Len(steps) >= 4
          /\ DOMAIN total_paid # {} => Len(steps) >= 5
          /\ DOMAIN balances # {} => Len(steps) >= 6
          /\ transfers # <<>> => Len(steps) >= 6
          /\ pc = "returned" => carry_over_table(steps) = clearing(transfers))
    /\ [][/\ Len(steps') \in {Len(steps), Len(steps) + 1}
          /\ \A i \in 1..Len(steps) : steps'[i].caption = steps[i].caption]_vars

\* C17 witness: summary has returned seven steps, the last one a table of
\* two transfers.
C17_Witness ==
    /\ pc = "returned"
    /\ Len(steps) = 7
    /\ Len(carry_over_table(steps)) = 2
    /\ steps[4].caption = "Outlay (summed)"

(***************************************************************************)
(* Properties of concurrent calls of summary.                              *)
(***************************************************************************)
\* A call of summary that runs alone, from the call s with the steps st to
\* its end.
RECURSIVE RunAlone(_, _)
RunAlone(s, st) ==
    IF s.pc \in {"returned", "raised"} THEN after(s, st)
    ELSE RunAlone(summary_stage(s, st).call, summary_stage(s, st).steps)

Alone(thread) == RunAlone(called(calls[thread].df_in, calls[thread].accepts), <<>>)

\* The variables of the single call of Spec as the record of a call.
TheCall(accepts) ==
    [df_in |-> df_in, accepts |-> accepts, pc |-> pc, raised |-> raised,
     df |-> df, df_expanded |-> df_expanded, df_stacked |-> df_stacked,
     df_summed |-> df_summed, total_received |-> total_received,
     total_paid |-> total_paid, balances |-> balances, transfers |-> transfers]

\* The stages of a thread's call are the stages of summary as the actions
\* Outlay to Clearing take them.
StagesAgree ==
    pc \in {"returned", "raised"} =>
        \E accepts \in BOOLEAN :
            /\ RunAlone(called(df_in, accepts), <<>>).call = TheCall(accepts)
            /\ RunAlone(called(df_in, accepts), <<>>).steps = steps

IterationStarts == pc = "balances" /\ Cardinality(DOMAIN balances) > 1

\* C19: the loop iterates only while more than one person has a non-zero
\* balance, and persons whose balance has become zero are removed: when
\* an iteration starts nobody in the table has a zero balance.
C19_NoZeroBalanceInLoop ==
    IterationStarts =>
        /\ \A p \in DOMAIN balances : balances[p] # 0
        /\ Cardinality({p \in DOMAIN balances : balances[p] # 0}) > 1

\* The balance of q after the amount a has moved from d to c.
AfterTransfer(b, q, c, d, a) ==
    b[q] - (IF q = c THEN a ELSE 0) + (IF q = d THEN a ELSE 0)

\* C20: from balances that sum to zero, every iteration transfers
\* min(creditor's balance, -debtor's balance) from the debtor to the
\* creditor; the creditor's balance goes down and the debtor's up by that
\* amount; the one person removed has balance zero after the transfer; so
\* the balances left in the table sum to zero after every iteration, and
\* the last person ends with balance zero.
C20_GreedyStep ==
    /\ [][(IterationStarts /\ transfers' # transfers
             /\ SumOver(balances, DOMAIN balances) = 0) =>
            LET c == Richest(balances)
                d == Poorest(balances)
                a == transfers'[Len(transfers')][3]
            IN  /\ transfers' = Append(transfers, <<d, c, a>>)
                /\ a = (IF balances[c] <= -balances[d]
                        THEN balances[c] ELSE -balances[d])
                /\ a >= 0
                /\ \E r \in {c, d} :
                      /\ DOMAIN balances' = DOMAIN balances \ {r}
                      /\ AfterTransfer(balances, r, c, d, a) = 0
                /\ \A q \in DOMAIN balances' :
                      balances'[q] = AfterTransfer(balances, q, c, d, a)
                /\ SumOver(balances', DOMAIN balances') = 0]_vars
    /\ [](pc \in {"balances", "returned"} => SumOver(balances, DOMAIN balances) = 0)
    /\ [](pc = "returned" => \A p \in DOMAIN balances : balances[p] = 0)

\* C20 witness: the loop is between its first and its second iteration on
\* three persons: one has been removed, the two that are left have changed
\* balances that are not zero, and the first transfer was smaller than the
\* creditor's balance.
C20_Witness ==
    /\ pc = "balances"
    /\ Len(transfers) = 1
    /\ Cardinality(DOMAIN balances) = 2
    /\ \A p \in DOMAIN balances : balances[p] # 0
    /\ balances[transfers[1][2]] > 0
    /\ balances[transfers[1][2]] = BalancesBeforeLoop[transfers[1][2]] - transfers[1][3]

(***************************************************************************)
(* Undo: the calls of append and undo on record in `log`.                  *)
(***************************************************************************)
\* The calls of append that stored a record, and the calls of undo.
Stored(l) == {i \in DOMAIN l : l[i].op = "append" /\ l[i].outcome = "returned"}
Undos(l) == {i \in DOMAIN l : l[i].op = "undo"}

\* The last call that stored a record, 0 if there is none.
LastStored(l) ==
    IF Stored(l) = {} THEN 0 ELSE CHOOSE i \in Stored(l) : \A j \in Stored(l) : j <= i

Before(i) == SubSeq(log, 1, i - 1)

\* The call ending in this step is an undo that raises IndexError.
UndoRefused ==
    /\ Len(log') = Len(log) + 1
    /\ log'[Len(log')].op = "undo"
    /\ log'[Len(log')].outcome = "IndexError"

\* C21: a row of the sheet is cleared only by an undo that holds the record
\* stored last, in the row that record was appended to, with no call of
\* undo since that record was stored; an undo with no record stored before
\* it, or with an earlier undo and no record stored in between, raises
\* IndexError, and an undo that raises IndexError leaves the sheet as it is.
C21_OnlyLastRecordUndoneOnce ==
    /\ [][(sheet' # sheet /\ handling.at # "append") =>
            /\ handling.at = "undo"
            /\ LastStored(log) # 0
            /\ handling.item = log[LastStored(log)].item
            /\ has_values(sheet, handling.item)
            /\ sheet[handling.item.table][handling.item.row - 1] = handling.item.data
            /\ sheet' = cleared(sheet, handling.item)
            /\ \A i \in Undos(log) : i < LastStored(log)]_vars
    /\ [](\A i \in Undos(log) :
            (\/ LastStored(Before(i)) = 0
             \/ \E j \in Undos(Before(i)) : j > LastStored(Before(i)))
            => log[i].outcome = "IndexError")
    /\ [][UndoRefused => sheet' = sheet]_vars

\* A record is appended and undone, and the undo after it is refused.
C21_Witness ==
    /\ Len(log) = 3
    /\ log[1].op = "append" /\ log[1].outcome = "returned"
    /\ log[2].op = "undo" /\ log[2].outcome = "returned"
    /\ log[3].op = "undo" /\ log[3].outcome = "IndexError"
    /\ log[3].message = Exceeded.str
    /\ sheet[log[1].item.table] = <<>>

\* C22: an undo issued more than undo_timer seconds after the record stored
\* last was stored raises IndexError (and so clears no row), whatever calls
\* of append, with or without an answer, and whatever Timers came before.
C22_UndoExpires ==
    \A i \in Undos(log) :
        (/\ LastStored(Before(i)) # 0
         /\ log[i].at - log[LastStored(Before(i))].at > UndoTimer)
        => log[i].outcome = "IndexError"

\* The step is line 99 of a call of undo.
UndoIssued ==
    /\ handling.at = "idle"
    /\ handling'.at = "undo" \/ UndoRefused

\* C23: while the record stored last is in the history, only its own Timer,
\* an undo or the next append replaces it; so an undo issued while that
\* Timer is still waiting, with no undo since the record was stored, gets
\* the record.
C23_OnlyOwnTimerExpires ==
    /\ [][(/\ LastStored(log) # 0
           /\ history = <<log[LastStored(log)].item>>
           /\ history' # history)
          => \/ UndoIssued
             \/ handling.at = "answered"
             \/ /\ timers[log[LastStored(log)].timer].state = "expiring"
                /\ timers'[log[LastStored(log)].timer].state = "finished"]_vars
    /\ [][(/\ UndoIssued
           /\ LastStored(log) # 0
           /\ timers[log[LastStored(log)].timer].state = "waiting"
           /\ \A i \in Undos(log) : i < LastStored(log))
          => /\ handling'.at = "undo"
             /\ handling'.item = log[LastStored(log)].item]_vars

====
